---- MODULE Spec2Model ----
(***************************************************************************)
(* sendMessage of src/src/services/api.ts (the second, current definition  *)
(* of the file, lines 180-418): credential check, per-attempt timeout,     *)
(* retry loop with exponential backoff, HTTP error classification and the  *)
(* incremental decoding of the server-sent-event body into onProgress      *)
(* calls.  One action per step between two awaits of the async function.   *)
(*                                                                         *)
(* Text is modelled as a sequence of one-character strings; a response     *)
(* body is a sequence of bytes, an ASCII byte written as its character and *)
(* a non-ASCII byte as "xHH".  The source's user-facing messages are       *)
(* Chinese; they are written here in English, the original in a comment.   *)
(*                                                                         *)
(* ChatInterface of src/src/components/ChatInterface.tsx calls sendMessage *)
(* from handleSend and reveals the accumulated text with a timer-driven    *)
(* typewriter effect.  A useState value is modelled twice: the value of    *)
(* the last render, and the value the state updates not yet rendered lead  *)
(* to (React 18 batches the updates made in timers and after an await and  *)
(* renders them in a later task; the updates of an event handler are       *)
(* rendered when the handler returns).  A render runs the effects whose    *)
(* dependencies changed, clean-up first.                                   *)
(***************************************************************************)
EXTENDS Integers, Sequences, FiniteSets, TLC

VARIABLES
    pc,             \* where sendMessage is suspended: idle, fetch, errbody, read,
                    \* cancel, backoff, done (returned), failed (threw)
    apiKey,         \* the apiKey argument
    serverBody,     \* the bytes the endpoint streams for this conversation
    retryCount,     \* let retryCount
    lastError,      \* let lastError
    thrown,         \* the error sendMessage rejected with
    netCalls,       \* number of fetch() calls issued by this send
    waits,          \* the delay(waitTime) calls made, in order
    timerArmed,     \* fetchWithTimeout's setTimeout is pending
    clockMs,        \* time since the current attempt's fetch was issued
    response,       \* the Response of the current attempt
    readPos,        \* bytes of serverBody the reader has handed out
    decoderPending, \* bytes TextDecoder holds back (stream: true)
    buffer,         \* let buffer
    readError,      \* the error travelling through the finally block
    deltas,         \* the arguments of the onProgress calls, in order
    deltaLines,     \* the line that caused each onProgress call
    attemptBase,    \* Len(deltas) when the current attempt started
    linesSeen,      \* lines the current attempt has taken out of the buffer
    cancelCalls,    \* reader.cancel() calls of the current attempt
    mounted,        \* ChatInterface is mounted
    messages,       \* useState values as of the last render
    isLoading,
    currentResponse,
    displayedResponse,
    queued,         \* the four values after the state updates not rendered yet
    isStreamingRef, \* isStreamingRef.current
    typewriterTimeoutRef, \* the timer behind typewriterTimeoutRef.current
    fullResponse,   \* let fullResponse of the handleSend call in progress
    newMessages,    \* const newMessages, the list handed to sendMessage
    completions,    \* the pending setTimeout(..., 100) callbacks of handleSend
    turn,           \* handleSend calls that passed the guard so far
    outcome,        \* per turn: running, completed, unanswered, failed, unmounted
    appends         \* per message appended: the turn it belongs to and its kind

vars == <<pc, apiKey, serverBody, retryCount, lastError, thrown, netCalls, waits,
          timerArmed, clockMs, response, readPos, decoderPending, buffer,
          readError, deltas, deltaLines, attemptBase, linesSeen, cancelCalls,
          mounted, messages, isLoading, currentResponse, displayedResponse, queued,
          isStreamingRef, typewriterTimeoutRef, fullResponse, newMessages,
          completions, turn, outcome, appends>>

chatVars ==
    <<mounted, messages, isLoading, currentResponse, displayedResponse, queued,
      isStreamingRef, typewriterTimeoutRef, fullResponse, newMessages, completions,
      turn, outcome, appends>>

-----------------------------------------------------------------------------
(* Bounds of the model *)

\* The clock advances in steps of TickMs and stops at MaxClockMs.
TickMs == 15000
MaxClockMs == 45000
\* Under Spec the network hands the body out NetChunk bytes at a time (SpecStream
\* cuts it everywhere).
NetChunk == 40
\* The user sends at most this many messages.
MaxTurns == 2

-----------------------------------------------------------------------------
(* Program constants *)

maxRetries == 3
timeout == 30000
BackoffBaseMs == 1000
BackoffCapMs == 8000
PrefixLen == 6

-----------------------------------------------------------------------------
(* Text helpers *)

Min(a, b) == IF a < b THEN a ELSE b

RECURSIVE Pow2(_)
Pow2(n) == IF n = 0 THEN 1 ELSE 2 * Pow2(n - 1)

Whitespace == {" ", "\t", "\n", "\r"}

\* The character a decoder puts in place of an ill-formed byte sequence.
Replacement == "U+FFFD"

RECURSIVE trimStart(_)
trimStart(s) == IF s # <<>> /\ Head(s) \in Whitespace THEN trimStart(Tail(s)) ELSE s

RECURSIVE trimEnd(_)
trimEnd(s) ==
    IF s # <<>> /\ s[Len(s)] \in Whitespace THEN trimEnd(SubSeq(s, 1, Len(s) - 1)) ELSE s

trim_none(s) == s

\* String.prototype.trim
trim(s) == trimEnd(trimStart(s))

\* String.prototype.startsWith
startsWith(s, p) == Len(s) >= Len(p) /\ SubSeq(s, 1, Len(p)) = p

\* String.prototype.slice(n)
slice(s, n) == SubSeq(s, n + 1, Len(s))

-----------------------------------------------------------------------------
(* The server-sent-event lines the modelled endpoint can stream *)

PrefixData ==
    <<"d", "a", "t", "a", ":", " ">>

PayloadHi ==
    <<"{", "\"", "c", "h", "o", "i", "c", "e", "s", "\"", ":", "[", "{", "\"", "d",
      "e", "l", "t", "a", "\"", ":", "{", "\"", "c", "o", "n", "t", "e", "n", "t",
      "\"", ":", "\"", "H", "i", "\"", "}", "}", "]", "}">>

PayloadCJK ==
    <<"{", "\"", "c", "h", "o", "i", "c", "e", "s", "\"", ":", "[", "{", "\"", "d",
      "e", "l", "t", "a", "\"", ":", "{", "\"", "c", "o", "n", "t", "e", "n", "t",
      "\"", ":", "\"", "xE4", "xBD", "xA0", "\"", "}", "}", "]", "}">>

PayloadEmpty ==
    <<"{", "\"", "c", "h", "o", "i", "c", "e", "s", "\"", ":", "[", "{", "\"", "d",
      "e", "l", "t", "a", "\"", ":", "{", "\"", "c", "o", "n", "t", "e", "n", "t",
      "\"", ":", "\"", "\"", "}", "}", "]", "}">>

PayloadNull ==
    <<"{", "\"", "c", "h", "o", "i", "c", "e", "s", "\"", ":", "[", "{", "\"", "d",
      "e", "l", "t", "a", "\"", ":", "{", "\"", "c", "o", "n", "t", "e", "n", "t",
      "\"", ":", "n", "u", "l", "l", "}", "}", "]", "}">>

PayloadRole ==
    <<"{", "\"", "c", "h", "o", "i", "c", "e", "s", "\"", ":", "[", "{", "\"", "d",
      "e", "l", "t", "a", "\"", ":", "{", "\"", "r", "o", "l", "e", "\"", ":", "\"",
      "a", "s", "s", "i", "s", "t", "a", "n", "t", "\"", "}", "}", "]", "}">>

PayloadNoDelta ==
    <<"{", "\"", "c", "h", "o", "i", "c", "e", "s", "\"", ":", "[", "{", "\"", "f",
      "i", "n", "i", "s", "h", "_", "r", "e", "a", "s", "o", "n", "\"", ":", "\"", "s",
      "t", "o", "p", "\"", "}", "]", "}">>

PayloadNoChoices ==
    <<"{", "\"", "i", "d", "\"", ":", "\"", "g", "e", "n", "-", "1", "\"", "}">>

PayloadTruncated ==
    <<"{", "\"", "c", "h", "o", "i", "c", "e", "s", "\"", ":", "[", "{", "\"", "d",
      "e", "l", "t", "a", "\"">>

PayloadDone ==
    <<"[", "D", "O", "N", "E", "]">>

LineComment ==
    <<":", " ", "O", "P", "E", "N", "R", "O", "U", "T", "E", "R", " ", "P", "R", "O",
      "C", "E", "S", "S", "I", "N", "G">>

PrefixUpper ==
    <<"D", "a", "t", "a", ":", " ">>

PrefixNoSpace ==
    <<"d", "a", "t", "a", ":">>


NL == <<"\n">>

DataLine(payload) == PrefixData \o payload \o NL

\* Two content records, the second one holding a three-byte character.
BodyPlain == DataLine(PayloadHi) \o NL \o DataLine(PayloadCJK) \o NL

\* A comment line, a role-only first record, content, then the end marker.
BodyTypical ==
    LineComment \o NL \o NL \o DataLine(PayloadRole) \o DataLine(PayloadHi)
        \o DataLine(PayloadDone)

\* Records that cannot be decoded, followed by a well-formed one.
BodyMalformed ==
    DataLine(PayloadTruncated) \o DataLine(PayloadNoChoices) \o DataLine(PayloadNoDelta)
        \o DataLine(PayloadHi)

\* An empty and a null content field, then content.
BodyEmptyDelta == DataLine(PayloadEmpty) \o DataLine(PayloadNull) \o DataLine(PayloadHi)

\* Lines that hold a well-formed payload behind something that is not `data: `.
BodyNotData ==
    PrefixUpper \o PayloadHi \o NL \o PrefixNoSpace \o PayloadHi \o NL
        \o DataLine(PayloadCJK)

\* The last record is complete but the stream ends without a newline.
BodyNoFinalNewline == DataLine(PayloadHi) \o PrefixData \o PayloadCJK

\* The end marker arrives before the last record.
BodyDoneMidway == DataLine(PayloadRole) \o DataLine(PayloadDone) \o DataLine(PayloadHi)

Bodies ==
    {BodyPlain, BodyTypical, BodyMalformed, BodyEmptyDelta, BodyNotData,
     BodyNoFinalNewline, BodyDoneMidway}

\* The bodies served under Spec.
RetryBodies == {BodyPlain}

ApiKeys == {<<>>, <<" ">>, <<" ", "\t">>, <<"s", "k">>, <<" ", "s", "k", "\n">>}

-----------------------------------------------------------------------------
(* JavaScript values, as far as the code inspects them *)

Undefined == [t |-> "undefined"]
Null == [t |-> "null"]
Str(s) == [t |-> "string", v |-> s]
Num(n) == [t |-> "number", v |-> n]
Obj(f) == [t |-> "object", f |-> f]
Arr(e) == [t |-> "array", e |-> e]

\* v.k for a value that is not null or undefined
Get(v, k) == IF v.t = "object" /\ k \in DOMAIN v.f THEN v.f[k] ELSE Undefined

\* v?.k
GetOpt(v, k) == IF v.t \in {"undefined", "null"} THEN Undefined ELSE Get(v, k)

Truthy(v) ==
    CASE v.t \in {"undefined", "null"} -> FALSE
      [] v.t = "string" -> v.v # ""
      [] v.t = "number" -> v.v # 0
      [] OTHER -> TRUE

Delta(content) == Obj([choices |-> Arr(<<Obj([delta |-> Obj([content |-> content])])>>)])

ErrorMessage(m) == Obj([error |-> Obj([message |-> Str(m)])])

\* The response bodies of the non-success statuses.
ErrTextProvider ==
    "{\"error\":{\"message\":\"Provider returned error\",\"metadata\":{\"raw\":\"{\\\"error\\\":{\\\"message\\\":\\\"Rate limit reached\\\"}}\"}}}"
ErrTextTop == "{\"error\":{\"message\":\"No auth credentials found\"}}"
ErrTextRawNotJson ==
    "{\"error\":{\"message\":\"Provider returned error\",\"metadata\":{\"raw\":\"upstream timeout\"}}}"
ErrTextNoMessage == "{\"error\":{}}"
ErrTextHtml == "<html>502 Bad Gateway</html>"
RawProvider == "{\"error\":{\"message\":\"Rate limit reached\"}}"

ErrorTexts == {ErrTextProvider, ErrTextTop, ErrTextRawNotJson, ErrTextNoMessage, ErrTextHtml}

\* The text of a record whose content is the characters cs.
ContentPayload(cs) == SubSeq(PayloadEmpty, 1, 33) \o cs \o SubSeq(PayloadEmpty, 34, 38)

\* JSON.parse on the texts that occur; every other text of the model (a truncated
\* record, a fragment of a record, HTML) is not JSON.
JSONTable ==
    (PayloadHi :> Delta(Str("Hi")))
    @@ (ContentPayload(<<"U+4F60">>) :> Delta(Str("U+4F60")))
    @@ (PayloadEmpty :> Delta(Str("")))
    @@ (PayloadNull :> Delta(Null))
    @@ (PayloadRole
            :> Obj([choices |-> Arr(<<Obj([delta |-> Obj([role |-> Str("assistant")])])>>)]))
    @@ (PayloadNoDelta
            :> Obj([choices |-> Arr(<<Obj([finish_reason |-> Str("stop")])>>)]))
    @@ (PayloadNoChoices :> Obj([id |-> Str("gen-1")]))
    @@ (ContentPayload(<<"H", "i", "!", " ">>) :> Delta(Str("Hi! ")))
    @@ (ContentPayload(<<"H", "o", "w", " ", "a", "r", "e", " ", "y", "o", "u", "?">>)
            :> Delta(Str("How are you?")))
    @@ (ContentPayload(<<"C", "o", "d", "e", " ", "t", "y">>) :> Delta(Str("Code ty")))
    @@ (ContentPayload(<<"p", "e", "s">>) :> Delta(Str("pes")))
    @@ (ContentPayload(<<"W", "e", "l", "l", ",", " ", "t", "y">>) :> Delta(Str("Well, ty")))
    @@ (ContentPayload(<<"p", "e", "d", ":", " ", "o", "k", ".">>) :> Delta(Str("ped: ok.")))
    @@ (ContentPayload(<<"\\", "\"", "H", "i", ",", "\\", "\"", " ", "o", "k">>)
            :> Delta(Str("\"Hi,\" ok")))
    @@ (ContentPayload(<<"U+4F60", "U+597D", "U+FF0C", "U+4F60", "U+3002">>)
            :> Delta(Str("U+4F60U+597DU+FF0CU+4F60U+3002")))
    @@ (ContentPayload([i \in 1..100 |-> "a"]) :> Delta(Str("a x 100")))
    @@ (ContentPayload([i \in 1..101 |-> "a"]) :> Delta(Str("a x 101")))

\* JSON.parse on the error bodies, which the model keeps as whole strings.
JSONTextTable ==
    (ErrTextProvider
            :> Obj([error |-> Obj([message |-> Str("Provider returned error"),
                                   metadata |-> Obj([raw |-> Str(RawProvider)])])]))
    @@ (RawProvider :> ErrorMessage("Rate limit reached"))
    @@ (ErrTextTop :> ErrorMessage("No auth credentials found"))
    @@ (ErrTextRawNotJson
            :> Obj([error |-> Obj([message |-> Str("Provider returned error"),
                                   metadata |-> Obj([raw |-> Str("upstream timeout")])])]))
    @@ (ErrTextNoMessage :> Obj([error |-> Obj([a \in {} |-> Undefined])]))

\* JSON.parse(text) of a character sequence: the value, or ok = FALSE when it
\* throws a SyntaxError
JSONparse(text) ==
    IF text \in DOMAIN JSONTable
    THEN [ok |-> TRUE, value |-> JSONTable[text]]
    ELSE [ok |-> FALSE, value |-> Undefined]

\* JSON.parse(text) of a string
JSONparseText(text) ==
    IF text \in DOMAIN JSONTextTable
    THEN [ok |-> TRUE, value |-> JSONTextTable[text]]
    ELSE [ok |-> FALSE, value |-> Undefined]

-----------------------------------------------------------------------------
(* TextDecoder: UTF-8 bytes to characters *)

\* first bytes of a three-byte sequence
Lead3 == {"xE3", "xE4", "xE5", "xEF"}
\* bytes 0x80..0xBF
Continuation == {"xBD", "xA0", "xA5", "xBC", "x8C", "x80", "x82"}

\* The character a complete three-byte sequence encodes.
Utf8Char(b1, b2, b3) ==
    IF <<b1, b2, b3>> = <<"xE4", "xBD", "xA0">> THEN "U+4F60"
    ELSE IF <<b1, b2, b3>> = <<"xE5", "xA5", "xBD">> THEN "U+597D"
    ELSE IF <<b1, b2, b3>> = <<"xEF", "xBC", "x8C">> THEN "U+FF0C"
    ELSE IF <<b1, b2, b3>> = <<"xE3", "x80", "x82">> THEN "U+3002"
    ELSE Replacement

\* Byte i of bs starts a three-byte sequence that is complete in bs.
Complete3(bs, i) ==
    /\ bs[i] \in Lead3
    /\ i + 2 <= Len(bs)
    /\ bs[i + 1] \in Continuation
    /\ bs[i + 2] \in Continuation

\* Byte i of bs starts a sequence that the end of bs cuts short.
CutShort(bs, i) ==
    /\ bs[i] \in Lead3
    /\ \/ i = Len(bs)
       \/ i + 1 = Len(bs) /\ bs[i + 1] \in Continuation

\* Byte i of bs continues a sequence begun one or two bytes earlier.
Continues(bs, i) ==
    /\ bs[i] \in Continuation
    /\ \/ i > 1 /\ bs[i - 1] \in Lead3
       \/ i > 2 /\ bs[i - 2] \in Lead3 /\ bs[i - 1] \in Continuation

\* Decodes bs as far as it is complete: [out, rest], rest an incomplete sequence
\* at the very end of bs.  An ill-formed sequence decodes to U+FFFD.
Utf8Decode(bs) ==
    LET Skip == "skip"
        at(i) ==
            IF bs[i] \notin Lead3 \cup Continuation THEN bs[i]
            ELSE IF Complete3(bs, i) THEN Utf8Char(bs[i], bs[i + 1], bs[i + 2])
            ELSE IF CutShort(bs, i) \/ Continues(bs, i) THEN Skip
            ELSE Replacement
        held == {i \in 1..Len(bs) : CutShort(bs, i)}
    IN  [out |-> SelectSeq([i \in 1..Len(bs) |-> at(i)], LAMBDA c : c # Skip),
         rest |-> IF held = {} THEN <<>>
                  ELSE SubSeq(bs, CHOOSE i \in held : TRUE, Len(bs))]

\* decoder.decode(value, { stream: true })
decode(pending, value) ==
    LET r == Utf8Decode(pending \o value)
    IN  [text |-> r.out, pending |-> r.rest]

-----------------------------------------------------------------------------
(* Line splitting *)

RECURSIVE split(_)
\* s.split('\n'): the pieces between the newlines of s, one more than newlines
split(s) ==
    LET nls == {i \in 1..Len(s) : s[i] = "\n"}
    IN  IF nls = {} THEN <<s>>
        ELSE LET first == CHOOSE i \in nls : \A j \in nls : i <= j
             IN  <<SubSeq(s, 1, first - 1)>> \o split(SubSeq(s, first + 1, Len(s)))

\* lines.pop(): what stays in lines, and the `lines.pop() || ''` kept as buffer
PopLines(lines) == SubSeq(lines, 1, Len(lines) - 1)
PopLast(lines) == lines[Len(lines)]

\* A bug that forgets the rolling buffer: every chunk is split on its own.
Unbuffered(buf, text) == text

\* buffer += chunk
Buffered(buf, text) == buf \o text

-----------------------------------------------------------------------------
(* Errors *)

Error(name, message) == [name |-> name, message |-> message]
NoError == Error("none", "")

\* '请提供有效的 API Key'
MsgInvalidKey == "Please provide a valid API Key"
\* '请求超时，请检查网络连接'
MsgTimeout == "Request timed out, please check the network connection"
\* '多次请求失败: '
MsgExhausted == "Multiple requests failed: "
\* '请求过于频繁，请稍后再试'
Msg429 == "Too many requests, please try again later"
\* 'API Key 无效或已过期，请检查你的 OpenRouter API Key'
Msg401 == "API Key invalid or expired, please check your OpenRouter API Key"
\* '访问被拒绝，请检查 API Key 权限或尝试使用其他模型'
Msg403 == "Access denied, please check the API Key permissions or try another model"
\* '服务暂时不可用，请稍后再试'
Msg503 == "Service temporarily unavailable, please try again later"
\* 'API请求失败: '
MsgRequestFailed == "API request failed: "
\* '服务提供商错误: '
MsgProvider == "Provider error: "
\* 'OpenRouter API 错误: '
MsgOpenRouter == "OpenRouter API error: "
\* '无法读取响应流'
MsgNoReader == "Cannot read the response stream"

\* What fetch() and reader.read() reject with when the network fails.
NetworkError == Error("TypeError", "Failed to fetch")
\* What fetch() rejects with when its signal is aborted.
AbortError == Error("AbortError", "The user aborted a request.")
SyntaxError == Error("SyntaxError", "Unexpected token in JSON")

-----------------------------------------------------------------------------
(* Non-success HTTP status: the error the attempt fails with *)

OkStatuses == {200, 204}
ErrorStatuses == {401, 403, 429, 500, 503}
\* Responses whose body is null (response.body?.getReader() is undefined).
NullBodyStatuses == {204}

StatusText(status) ==
    CASE status = 401 -> "Unauthorized"
      [] status = 403 -> "Forbidden"
      [] status = 429 -> "Too Many Requests"
      [] status = 500 -> "Internal Server Error"
      [] status = 503 -> "Service Unavailable"
      [] OTHER -> ""

\* errorData?.error?.message and the throw that follows it
TopLevelError(errorData) ==
    LET errorMessage == GetOpt(GetOpt(errorData, "error"), "message")
    IN  IF Truthy(errorMessage) THEN Error("Error", MsgOpenRouter \o errorMessage.v)
        ELSE NoError

\* What the body of the try block throws (NoError: it runs to its end).
TryExtract(errorText) ==
    LET r == JSONparseText(errorText)
        errorData == r.value
        providerError == GetOpt(GetOpt(GetOpt(errorData, "error"), "metadata"), "raw")
        pr == JSONparseText(providerError.v)
        errorMessage == GetOpt(GetOpt(pr.value, "error"), "message")
    IN  IF ~r.ok THEN SyntaxError
        ELSE IF ~Truthy(providerError) THEN TopLevelError(errorData)
        ELSE IF ~pr.ok THEN SyntaxError
        ELSE IF Truthy(errorMessage) THEN Error("Error", MsgProvider \o errorMessage.v)
        ELSE TopLevelError(errorData)

catchExtract_rethrow(e) == e

\* catch (e) { console.warn(...) }: what leaves the try statement
catchExtract(e) == NoError

StatusError(status, errorText) ==
    CASE status = 429 -> Error("Error", Msg429)
      [] status = 401 -> Error("Error", Msg401)
      [] status = 403 -> Error("Error", Msg403)
      [] status = 503 -> Error("Error", Msg503)
      [] OTHER ->
           Error("Error",
                 MsgRequestFailed \o ToString(status) \o " " \o StatusText(status)
                     \o "\n" \o errorText)

\* The error thrown by the `if (!response.ok)` block.
HttpError(status, errorText) ==
    LET e == catchExtract(TryExtract(errorText))
    IN  IF e # NoError THEN e ELSE StatusError(status, errorText)

-----------------------------------------------------------------------------
(* One line of the stream *)

NoCalls == [calls |-> <<>>, thrown |-> NoError]

\* The try block around JSON.parse(data): the onProgress calls it makes and what
\* it throws.
ParseRecord(data) ==
    LET r == JSONparse(data)
        parsed == r.value
        choices == Get(parsed, "choices")
        choice == choices.e[1]
        delta == Get(choice, "delta")
        content == Get(delta, "content")
    IN  IF ~r.ok THEN [calls |-> <<>>, thrown |-> SyntaxError]
        ELSE IF ~Truthy(parsed) \/ ~Truthy(choices) \/ choices.t # "array"
                \/ Len(choices.e) = 0 THEN NoCalls
        ELSE IF ~Truthy(choice) \/ ~Truthy(delta) THEN NoCalls
        ELSE IF content.t \notin {"undefined", "null"}
             THEN [calls |-> <<content.v>>, thrown |-> NoError]
        ELSE NoCalls

catchRecord_rethrow(e) == e

\* catch (e) { console.warn(...); continue; }
catchRecord(e) == NoError

IsDataLine_any(line) == Len(line) >= PrefixLen

\* line.startsWith('data: ')
IsDataLine(line) == startsWith(line, PrefixData)

\* The body of `for (const line of lines)`.
ProcessLine(line) ==
    IF IsDataLine(line)
    THEN LET data == slice(line, PrefixLen)
             r == ParseRecord(data)
         IN  IF data = PayloadDone THEN NoCalls
             ELSE [calls |-> r.calls, thrown |-> catchRecord(r.thrown)]
    ELSE NoCalls

\* if (data === '[DONE]')
IsDoneLine(line) == IsDataLine(line) /\ slice(line, PrefixLen) = PayloadDone

continueAtDone_break(rest) ==
    [calls |-> <<>>, callLines |-> <<>>, n |-> 0, thrown |-> NoError]

\* `continue` at the end marker: the for loop goes on with the lines after it.
continueAtDone(rest) == rest

RECURSIVE ProcessLines(_)
\* The for loop: the onProgress calls in order, the line behind each, the number
\* of lines taken, and the error that ended the loop early.
ProcessLines(lines) ==
    IF lines = <<>>
    THEN [calls |-> <<>>, callLines |-> <<>>, n |-> 0, thrown |-> NoError]
    ELSE LET r == ProcessLine(Head(lines))
             rest == IF IsDoneLine(Head(lines))
                     THEN continueAtDone(ProcessLines(Tail(lines)))
                     ELSE ProcessLines(Tail(lines))
             mine == [i \in 1..Len(r.calls) |-> Head(lines)]
         IN  IF r.thrown # NoError
             THEN [calls |-> r.calls, callLines |-> mine, n |-> 1, thrown |-> r.thrown]
             ELSE [calls |-> r.calls \o rest.calls, callLines |-> mine \o rest.callLines,
                   n |-> 1 + rest.n, thrown |-> rest.thrown]

-----------------------------------------------------------------------------
(* The retry loop *)

NoResponse == [status |-> 0, text |-> ""]

IsAbortError_never(error) == FALSE

\* error instanceof Error && error.name === 'AbortError'
IsAbortError(error) == error.name = "AbortError"

WaitTime_fromOne(n) == Min(BackoffBaseMs * Pow2(n + 1), BackoffCapMs)

\* Math.min(1000 * Math.pow(2, retryCount), 8000)
WaitTime(n) == Min(BackoffBaseMs * Pow2(n), BackoffCapMs)

\* The loop body up to `await fetchWithTimeout(...)`: the timer is set and the
\* request is on its way.
StartAttempt ==
    /\ pc' = "fetch"
    /\ netCalls' = netCalls + 1
    /\ timerArmed' = TRUE
    /\ clockMs' = 0
    /\ response' = NoResponse
    /\ readPos' = 0
    /\ decoderPending' = <<>>
    /\ buffer' = <<>>
    /\ readError' = NoError
    /\ attemptBase' = Len(deltas)
    /\ linesSeen' = 0
    /\ cancelCalls' = 0

HandleError_retryAgain(error) ==
    /\ lastError' = error
    /\ IF IsAbortError(error)
       THEN /\ pc' = "failed"
            /\ thrown' = Error("Error", MsgTimeout)
            /\ waits' = waits
       ELSE /\ pc' = "backoff"
            /\ thrown' = thrown
            /\ waits' = Append(waits, WaitTime(retryCount))

\* The outer catch block.
HandleError(error) ==
    /\ lastError' = error
    /\ IF IsAbortError(error)
       THEN /\ pc' = "failed"
            /\ thrown' = Error("Error", MsgTimeout)
            /\ waits' = waits
       ELSE IF retryCount < maxRetries - 1
       THEN /\ pc' = "backoff"
            /\ thrown' = thrown
            /\ waits' = Append(waits, WaitTime(retryCount))
       ELSE /\ pc' = "failed"
            /\ thrown' = Error("Error", MsgExhausted \o error.message)
            /\ waits' = waits

-----------------------------------------------------------------------------
(* ChatInterface: the texts of a conversation *)

\* The user's input and API key fields when the send button is pressed.
Inputs == {<<"q">>, <<" ", "q", " ">>, <<" ">>}
ChatKeys == {<<"s", "k">>, <<>>}

TextGreetingHead ==
    <<"H", "i", "!", " ">>
TextGreetingTail ==
    <<"H", "o", "w", " ", "a", "r", "e", " ", "y", "o", "u", "?">>
TextWordsHead ==
    <<"C", "o", "d", "e", " ", "t", "y">>
TextWordsTail ==
    <<"p", "e", "s">>
TextClauseHead ==
    <<"W", "e", "l", "l", ",", " ", "t", "y">>
TextClauseTail ==
    <<"p", "e", "d", ":", " ", "o", "k", ".">>
\* "Hi," ok, the quotation marks escaped in the record
TextQuoted ==
    <<"\"", "H", "i", ",", "\"", " ", "o", "k">>
\* ni hao, ni. in Chinese characters and punctuation
TextChinese ==
    <<"U+4F60", "U+597D", "U+FF0C", "U+4F60", "U+3002">>
\* a reply of exactly 100 characters, and one of 101
TextHundred == [i \in 1..100 |-> "a"]
TextOverHundred == [i \in 1..101 |-> "a"]

\* A reply streamed as two records.
BodyGreeting ==
    DataLine(ContentPayload(TextGreetingHead))
        \o DataLine(ContentPayload(TextGreetingTail))
BodyWords ==
    DataLine(ContentPayload(TextWordsHead)) \o DataLine(ContentPayload(TextWordsTail))
BodyClause ==
    DataLine(ContentPayload(TextClauseHead)) \o DataLine(ContentPayload(TextClauseTail))
\* A reply streamed as one record.
BodyQuoted ==
    DataLine(ContentPayload(<<"\\", "\"", "H", "i", ",", "\\", "\"", " ", "o", "k">>))
BodyChinese ==
    DataLine(ContentPayload(<<"xE4", "xBD", "xA0", "xE5", "xA5", "xBD", "xEF", "xBC",
                              "x8C", "xE4", "xBD", "xA0", "xE3", "x80", "x82">>))
BodyHundred == DataLine(ContentPayload(TextHundred))
BodyOverHundred == DataLine(ContentPayload(TextOverHundred))

\* The bodies served under SpecReveal.
RevealBodies ==
    {BodyGreeting, BodyWords, BodyClause, BodyPlain, BodyQuoted, BodyChinese,
     BodyHundred, BodyOverHundred}

\* A JavaScript string as the sequence of its characters.  A delta is split
\* into characters by the typewriter; an error message is only ever shown
\* whole and stays one element.
CharacterTable ==
    ("" :> <<>>)
    @@ ("Hi" :> <<"H", "i">>)
    @@ ("U+4F60" :> <<"U+4F60">>)
    @@ ("Hi! " :> TextGreetingHead)
    @@ ("How are you?" :> TextGreetingTail)
    @@ ("Code ty" :> TextWordsHead)
    @@ ("pes" :> TextWordsTail)
    @@ ("Well, ty" :> TextClauseHead)
    @@ ("ped: ok." :> TextClauseTail)
    @@ ("\"Hi,\" ok" :> TextQuoted)
    @@ ("U+4F60U+597DU+FF0CU+4F60U+3002" :> TextChinese)
    @@ ("a x 100" :> TextHundred)
    @@ ("a x 101" :> TextOverHundred)

Characters(s) == IF s \in DOMAIN CharacterTable THEN CharacterTable[s] ELSE <<s>>

RECURSIVE Concat(_)
\* fullResponse += content, for each content of contents in turn.
Concat(contents) ==
    IF contents = <<>> THEN <<>>
    ELSE Characters(Head(contents)) \o Concat(Tail(contents))

-----------------------------------------------------------------------------
(* ChatInterface: the typewriter *)

\* const baseDelay
baseDelay == 20
\* The pauses after a sentence end, a comma, a colon, a quotation mark and a
\* blank line.
SentencePauseMs == 250
CommaPauseMs == 120
ColonPauseMs == 180
QuotePauseMs == 80
ParagraphPauseMs == 350
\* phraseLength <= 2, wordLength <= 4, charsToAdd = 3
ShortPhrase == 2
ShortWord == 4
LongWordStep == 3

\* randomFactor = 0.98 + Math.random() * 0.04, in percent
RandomPercents == {98, 100, 101}

\* /[.,!?...]/ of the chunk rule; the non-ASCII ones are the fullwidth comma,
\* ideographic full stop, fullwidth ! and ?, ideographic comma, fullwidth
\* colon and fullwidth parentheses.
Punctuation ==
    {".", ",", "!", "?", "U+FF0C", "U+3002", "U+FF01", "U+FF1F", "U+3001", ":",
     "U+FF1A", "\"", "'", "U+FF08", "U+FF09", "(", ")"}

\* /[一-龥]/: the characters of that range the model's texts use.
CJK == {"U+4F60", "U+597D"}

\* /[a-zA-Z]/
Letters ==
    {"a", "b", "c", "d", "e", "f", "g", "h", "i", "j", "k", "l", "m", "n",
     "o", "p", "q", "r", "s", "t", "u", "v", "w", "x", "y", "z", "A", "B",
     "C", "D", "E", "F", "G", "H", "I", "J", "K", "L", "M", "N", "O", "P",
     "Q", "R", "S", "T", "U", "V", "W", "X", "Y", "Z"}

SentenceFinal == {".", "U+3002", "!", "U+FF01", "?", "U+FF1F"}
CommaClass == {",", "U+FF0C", "U+3001"}
ColonClass == {":", "U+FF1A"}
QuoteClass == {"\"", "'"}

\* s.charAt(i)
charAt(s, i) == IF i + 1 <= Len(s) THEN s[i + 1] ELSE ""

RunLength_through(s, class) ==
    CHOOSE n \in 0..Len(s) :
        \E m \in 0..Len(s) :
            /\ \A i \in 1..m : s[i] \in class
            /\ m = Len(s) \/ s[m + 1] \notin class
            /\ n = IF m < Len(s) THEN m + 1 ELSE m

\* s.match(/^[class]+/)[0].length, 0 when there is no match
RunLength(s, class) ==
    CHOOSE n \in 0..Len(s) :
        /\ \A i \in 1..n : s[i] \in class
        /\ n = Len(s) \/ s[n + 1] \notin class

\* phraseLength <= 2 ? phraseLength : 1
phraseChunk(phraseLength) == IF phraseLength <= ShortPhrase THEN phraseLength ELSE 1

wordChunk_whole(wordLength) == wordLength

\* wordLength <= 4 ? wordLength : 3
wordChunk(wordLength) == IF wordLength <= ShortWord THEN wordLength ELSE LongWordStep

\* let charsToAdd
charsToAdd(textToType) ==
    LET nextChar == charAt(textToType, 0)
        followingChar == charAt(textToType, 1)
    IN  IF nextChar \in Punctuation THEN 1
        ELSE IF nextChar \in CJK THEN phraseChunk(RunLength(textToType, CJK))
        ELSE IF nextChar \in Letters THEN wordChunk(RunLength(textToType, Letters))
        ELSE IF nextChar = " " /\ followingChar \in Letters THEN 1
        ELSE 1

\* lengthFactor, in percent
lengthFactor(totalLength) ==
    IF totalLength > 1000 THEN 85
    ELSE IF totalLength > 500 THEN 90
    ELSE IF totalLength > 100 THEN 95
    ELSE 100

\* progressFactor, in percent; progress = currentLength / totalLength
progressFactor(totalLength, currentLength) ==
    IF 10 * currentLength < totalLength THEN 90
    ELSE IF 5 * currentLength < totalLength THEN 95
    ELSE IF 100 * currentLength > 95 * totalLength THEN 105
    ELSE 100

\* Math.round(baseDelay * lengthFactor * progressFactor * randomFactor)
calculateTypingDelay(totalLength, currentLength, random) ==
    (baseDelay * lengthFactor(totalLength) * progressFactor(totalLength, currentLength)
        * random + 500000) \div 1000000

punctuationDelay_none(displayed) == 0

punctuationDelay_flat(displayed) ==
    IF displayed # <<>> /\ displayed[Len(displayed)] \in Punctuation
    THEN SentencePauseMs
    ELSE 0

\* const punctuationDelay
punctuationDelay(displayed) ==
    LET last == IF displayed = <<>> THEN "" ELSE displayed[Len(displayed)]
    IN  IF last \in SentenceFinal THEN SentencePauseMs
        ELSE IF last \in CommaClass THEN CommaPauseMs
        ELSE IF last \in ColonClass THEN ColonPauseMs
        ELSE IF last \in QuoteClass THEN QuotePauseMs
        ELSE 0

\* const paragraphDelay: /\n\s*\n$/
paragraphDelay(displayed) ==
    IF /\ displayed # <<>>
       /\ displayed[Len(displayed)] = "\n"
       /\ \E j \in 1..(Len(displayed) - 1) :
              /\ displayed[j] = "\n"
              /\ \A k \in (j + 1)..(Len(displayed) - 1) : displayed[k] \in Whitespace
    THEN ParagraphPauseMs
    ELSE 0

textToType_whole(current, displayed) == current

\* const textToType = currentResponse.slice(displayedResponse.length)
textToType(current, displayed) == slice(current, Len(displayed))

NoTimer == [pending |-> FALSE, chunk |-> <<>>, delay |-> 0, pause |-> 0, turn |-> 0]

\* The body of the typewriter effect, run with the values of a render after
\* its clean-up cleared the timer: the timer it sets, and whether it calls
\* setDisplayedResponse('').  t is the turn in progress.
typewriterEffect(current, displayed, streaming, random, t) ==
    IF current # <<>> /\ streaming
    THEN LET text == textToType(current, displayed)
         IN  IF text # <<>>
             THEN [timer |->
                       [pending |-> TRUE,
                        chunk |-> SubSeq(text, 1, Min(charsToAdd(text), Len(text))),
                        delay |-> calculateTypingDelay(Len(current), Len(displayed),
                                                       random),
                        pause |-> punctuationDelay(displayed) + paragraphDelay(displayed),
                        turn |-> t],
                   reset |-> FALSE]
             ELSE [timer |-> NoTimer, reset |-> FALSE]
    ELSE [timer |-> NoTimer, reset |-> ~streaming]

-----------------------------------------------------------------------------
(* Initial state and actions *)

Init ==
    /\ pc = "idle"
    /\ apiKey = <<>>
    /\ serverBody = <<>>
    /\ retryCount = 0
    /\ lastError = NoError
    /\ thrown = NoError
    /\ netCalls = 0
    /\ waits = <<>>
    /\ timerArmed = FALSE
    /\ clockMs = 0
    /\ response = NoResponse
    /\ readPos = 0
    /\ decoderPending = <<>>
    /\ buffer = <<>>
    /\ readError = NoError
    /\ deltas = <<>>
    /\ deltaLines = <<>>
    /\ attemptBase = 0
    /\ linesSeen = 0
    /\ cancelCalls = 0
    /\ mounted = TRUE
    /\ messages = <<>>
    /\ isLoading = FALSE
    /\ currentResponse = <<>>
    /\ displayedResponse = <<>>
    /\ queued = [messages |-> <<>>, isLoading |-> FALSE, currentResponse |-> <<>>,
                 displayedResponse |-> <<>>]
    /\ isStreamingRef = FALSE
    /\ typewriterTimeoutRef = NoTimer
    /\ fullResponse = <<>>
    /\ newMessages = <<>>
    /\ completions = <<>>
    /\ turn = 0
    /\ outcome = <<>>
    /\ appends = <<>>

attemptVars ==
    <<timerArmed, clockMs, response, readPos, decoderPending, buffer, readError,
      attemptBase, linesSeen, cancelCalls>>

netVars ==
    <<pc, apiKey, serverBody, retryCount, lastError, thrown, netCalls, waits,
      timerArmed, clockMs, response, readPos, decoderPending, buffer, readError,
      deltas, deltaLines, attemptBase, linesSeen, cancelCalls>>

\* sendMessage(messages, apiKey, onProgress) is called; body is what the endpoint
\* will stream for these messages.
sendMessage(key, body) ==
    /\ pc = "idle"
    /\ apiKey' = key
    /\ serverBody' = body
    /\ UNCHANGED <<deltas, deltaLines, waits>>
    /\ IF trim(key) = <<>>
       THEN /\ pc' = "failed"
            /\ thrown' = Error("Error", MsgInvalidKey)
            /\ UNCHANGED <<retryCount, lastError, netCalls>>
            /\ UNCHANGED attemptVars
       ELSE /\ retryCount' = 0
            /\ lastError' = NoError
            /\ thrown' = thrown
            /\ StartAttempt

\* Time passes while the attempt is in flight.  A pending timer fires before
\* time moves past its deadline.
Tick ==
    /\ pc \in {"fetch", "errbody", "read", "cancel"}
    /\ clockMs < MaxClockMs
    /\ ~(timerArmed /\ clockMs >= timeout)
    /\ clockMs' = clockMs + TickMs
    /\ UNCHANGED <<pc, apiKey, serverBody, retryCount, lastError, thrown, netCalls,
                   waits, timerArmed, response, readPos, decoderPending, buffer,
                   readError, deltas, deltaLines, attemptBase, linesSeen, cancelCalls>>

\* setTimeout(() => controller.abort(), timeout) fires: fetch rejects with an
\* AbortError, fetchWithTimeout rethrows it into the outer catch.
TimerFires ==
    /\ pc = "fetch"
    /\ timerArmed
    /\ clockMs >= timeout
    /\ timerArmed' = FALSE
    /\ HandleError(AbortError)
    /\ UNCHANGED <<apiKey, serverBody, retryCount, netCalls, clockMs, response, readPos,
                   decoderPending, buffer, readError, deltas, deltaLines, attemptBase,
                   linesSeen, cancelCalls>>

\* fetch resolves with the response head: clearTimeout(id), then the status check
\* and getReader().
FetchResolves(status) ==
    /\ pc = "fetch"
    /\ timerArmed' = FALSE
    /\ response' = [status |-> status, text |-> ""]
    /\ IF status \in ErrorStatuses
       THEN /\ pc' = "errbody"
            /\ UNCHANGED <<lastError, thrown, waits>>
       ELSE IF status \in NullBodyStatuses
       THEN HandleError(Error("Error", MsgNoReader))
       ELSE /\ pc' = "read"
            /\ UNCHANGED <<lastError, thrown, waits>>
    /\ UNCHANGED <<apiKey, serverBody, retryCount, netCalls, clockMs, readPos,
                   decoderPending, buffer, readError, deltas, deltaLines, attemptBase,
                   linesSeen, cancelCalls>>

\* fetch rejects because the network failed: clearTimeout(id), rethrow.
FetchRejects ==
    /\ pc = "fetch"
    /\ timerArmed' = FALSE
    /\ HandleError(NetworkError)
    /\ UNCHANGED <<apiKey, serverBody, retryCount, netCalls, clockMs, response, readPos,
                   decoderPending, buffer, readError, deltas, deltaLines, attemptBase,
                   linesSeen, cancelCalls>>

\* await response.text() resolves with the error body.
ErrorBodyArrives(errorText) ==
    /\ pc = "errbody"
    /\ response' = [response EXCEPT !.text = errorText]
    /\ HandleError(HttpError(response.status, errorText))
    /\ UNCHANGED <<apiKey, serverBody, retryCount, netCalls, timerArmed, clockMs,
                   readPos, decoderPending, buffer, readError, deltas, deltaLines,
                   attemptBase, linesSeen, cancelCalls>>

\* await response.text() rejects.
ErrorBodyFails ==
    /\ pc = "errbody"
    /\ HandleError(NetworkError)
    /\ UNCHANGED <<apiKey, serverBody, retryCount, netCalls, timerArmed, clockMs,
                   response, readPos, decoderPending, buffer, readError, deltas,
                   deltaLines, attemptBase, linesSeen, cancelCalls>>

\* reader.read() resolves with the next n bytes: decode, append to the buffer,
\* split, keep the last piece, process the lines.
ReadChunk(n) ==
    /\ pc = "read"
    /\ n \in 1..(Len(serverBody) - readPos)
    /\ \E d \in {decode(decoderPending, SubSeq(serverBody, readPos + 1, readPos + n))} :
       \E lines \in {split(Buffered(buffer, d.text))} :
       \E r \in {ProcessLines(PopLines(lines))} :
           /\ readPos' = readPos + n
           /\ decoderPending' = d.pending
           /\ buffer' = PopLast(lines)
           /\ deltas' = deltas \o r.calls
           /\ deltaLines' = deltaLines \o r.callLines
           /\ linesSeen' = linesSeen + r.n
           /\ readError' = r.thrown
           /\ pc' = IF r.thrown = NoError THEN "read" ELSE "cancel"
    /\ UNCHANGED <<apiKey, serverBody, retryCount, lastError, thrown, netCalls, waits,
                   timerArmed, clockMs, response, attemptBase, cancelCalls>>

\* reader.read() resolves with done: break, on to the finally block.
ReadDone ==
    /\ pc = "read"
    /\ readPos = Len(serverBody)
    /\ pc' = "cancel"
    /\ UNCHANGED <<apiKey, serverBody, retryCount, lastError, thrown, netCalls, waits,
                   timerArmed, clockMs, response, readPos, decoderPending, buffer,
                   readError, deltas, deltaLines, attemptBase, linesSeen, cancelCalls>>

\* reader.read() rejects: the inner catch rethrows, on to the finally block.
ReadFails ==
    /\ pc = "read"
    /\ readError' = NetworkError
    /\ pc' = "cancel"
    /\ UNCHANGED <<apiKey, serverBody, retryCount, lastError, thrown, netCalls, waits,
                   timerArmed, clockMs, response, readPos, decoderPending, buffer,
                   deltas, deltaLines, attemptBase, linesSeen, cancelCalls>>

CancelSettles_propagates(rejected) ==
    /\ pc = "cancel"
    /\ cancelCalls' = cancelCalls + 1
    /\ IF rejected
       THEN HandleError(Error("TypeError", "cancel failed"))
       ELSE IF readError = NoError
       THEN /\ pc' = "done"
            /\ UNCHANGED <<lastError, thrown, waits>>
       ELSE HandleError(readError)
    /\ UNCHANGED <<apiKey, serverBody, retryCount, netCalls, timerArmed, clockMs,
                   response, readPos, decoderPending, buffer, readError, deltas,
                   deltaLines, attemptBase, linesSeen>>

\* await reader.cancel() settles; a rejection is caught and logged.  Then either
\* `return` or the pending error reaches the outer catch.
CancelSettles(rejected) ==
    /\ pc = "cancel"
    /\ cancelCalls' = cancelCalls + 1
    /\ IF readError = NoError
       THEN /\ pc' = "done"
            /\ UNCHANGED <<lastError, thrown, waits>>
       ELSE HandleError(readError)
    /\ UNCHANGED <<apiKey, serverBody, retryCount, netCalls, timerArmed, clockMs,
                   response, readPos, decoderPending, buffer, readError, deltas,
                   deltaLines, attemptBase, linesSeen>>

\* await delay(waitTime) resolves: retryCount++, back to the loop condition.
BackoffElapses ==
    /\ pc = "backoff"
    /\ retryCount' = retryCount + 1
    /\ UNCHANGED <<apiKey, serverBody, lastError, waits, deltas, deltaLines>>
    /\ IF retryCount + 1 < maxRetries
       THEN /\ StartAttempt
            /\ thrown' = thrown
       ELSE /\ pc' = "failed"
            /\ thrown' = lastError
            /\ UNCHANGED netCalls
            /\ UNCHANGED attemptVars

-----------------------------------------------------------------------------
(* ChatInterface: rendering, handleSend, the timers, unmount *)

Rendered ==
    [messages |-> messages, isLoading |-> isLoading,
     currentResponse |-> currentResponse, displayedResponse |-> displayedResponse]

\* React renders with the state q.  The typewriter effect depends on
\* [currentResponse, displayedResponse]: when one of them changed, its clean-up
\* clears the timer and its body runs with the new values.
Commit(q, streaming, random, t) ==
    LET changed == \/ q.currentResponse # currentResponse
                   \/ q.displayedResponse # displayedResponse
        e == typewriterEffect(q.currentResponse, q.displayedResponse, streaming,
                              random, t)
    IN  /\ messages' = q.messages
        /\ isLoading' = q.isLoading
        /\ currentResponse' = q.currentResponse
        /\ displayedResponse' = q.displayedResponse
        /\ typewriterTimeoutRef' = IF changed THEN e.timer ELSE typewriterTimeoutRef
        /\ queued' = IF changed /\ e.reset
                     THEN [q EXCEPT !.displayedResponse = <<>>]
                     ELSE q

\* sendMessage has returned or thrown: its frame is gone.
Return ==
    /\ pc' = "idle"
    /\ apiKey' = <<>>
    /\ serverBody' = <<>>
    /\ retryCount' = 0
    /\ lastError' = NoError
    /\ thrown' = NoError
    /\ netCalls' = 0
    /\ waits' = <<>>
    /\ timerArmed' = FALSE
    /\ clockMs' = 0
    /\ response' = NoResponse
    /\ readPos' = 0
    /\ decoderPending' = <<>>
    /\ buffer' = <<>>
    /\ readError' = NoError
    /\ deltas' = <<>>
    /\ deltaLines' = <<>>
    /\ attemptBase' = 0
    /\ linesSeen' = 0
    /\ cancelCalls' = 0

\* The send button or Enter: handleSend up to `await sendMessage(...)`, and the
\* render React makes when the event handler has returned.  body is what the
\* endpoint will stream for newMessages.
handleSend(key, input, body) ==
    /\ mounted
    /\ turn < MaxTurns
    /\ ~(trim(input) = <<>> \/ trim(key) = <<>> \/ isLoading)
    /\ LET userMessage == [role |-> "user", content |-> trim(input)]
       IN  /\ Commit([messages |-> Append(queued.messages, userMessage),
                      isLoading |-> TRUE,
                      currentResponse |-> <<>>,
                      displayedResponse |-> <<>>], TRUE, 100, turn + 1)
           /\ newMessages' = Append(messages, userMessage)
    /\ isStreamingRef' = TRUE
    /\ fullResponse' = <<>>
    /\ sendMessage(key, body)
    /\ turn' = turn + 1
    /\ outcome' = Append(outcome, "running")
    /\ appends' = Append(appends, [turn |-> turn + 1, kind |-> "user"])
    /\ UNCHANGED <<mounted, completions>>

\* reader.read() resolves with a chunk inside sendMessage; handleProgress runs
\* for every content it yields.  A state update of an unmounted component is
\* dropped.
handleProgress(n) ==
    /\ ReadChunk(n)
    /\ LET contents == SubSeq(deltas', Len(deltas) + 1, Len(deltas'))
       IN  /\ fullResponse' = fullResponse \o Concat(contents)
           /\ queued' = IF contents # <<>> /\ mounted
                        THEN [queued EXCEPT !.currentResponse = fullResponse']
                        ELSE queued
    /\ UNCHANGED <<mounted, messages, isLoading, currentResponse, displayedResponse,
                   isStreamingRef, typewriterTimeoutRef, newMessages, completions,
                   turn, outcome, appends>>

scheduleCompletion_always(streaming, pending, callback) == Append(pending, callback)

\* if (isStreamingRef.current) { setTimeout(() => {...}, 100) }
scheduleCompletion(streaming, pending, callback) ==
    IF streaming THEN Append(pending, callback) ELSE pending

\* `await sendMessage(...)` resolves: the completion callback is scheduled when
\* the streaming flag is still set, then the finally block.
SendReturns ==
    /\ pc = "done"
    /\ completions' = scheduleCompletion(isStreamingRef, completions,
                                         [turn |-> turn, fullResponse |-> fullResponse])
    /\ queued' = IF mounted THEN [queued EXCEPT !.isLoading = FALSE] ELSE queued
    /\ outcome' = [outcome EXCEPT ![turn] =
                       IF @ # "running" THEN @
                       ELSE IF isStreamingRef THEN "completed" ELSE "unanswered"]
    /\ Return
    /\ UNCHANGED <<mounted, messages, isLoading, currentResponse, displayedResponse,
                   isStreamingRef, typewriterTimeoutRef, fullResponse, newMessages,
                   turn, appends>>

\* '发送消息时出错，请稍后重试。'
MsgSendFailed == "Sending the message failed, please try again later."

errorContent_fallback(error) == Characters(MsgSendFailed)

\* error instanceof Error ? error.message : <fallback>; whatever sendMessage
\* throws is an Error.
errorContent(error) == Characters(error.message)

\* `await sendMessage(...)` rejects: the catch block, then the finally block.
SendThrows ==
    /\ pc = "failed"
    /\ queued' = IF mounted
                 THEN [queued EXCEPT
                          !.messages = Append(@, [role |-> "assistant",
                                                  content |-> errorContent(thrown)]),
                          !.displayedResponse = <<>>,
                          !.isLoading = FALSE]
                 ELSE queued
    /\ appends' = IF mounted
                  THEN Append(appends, [turn |-> turn, kind |-> "error"])
                  ELSE appends
    /\ isStreamingRef' = FALSE
    /\ outcome' = [outcome EXCEPT ![turn] = IF @ = "running" THEN "failed" ELSE @]
    /\ Return
    /\ UNCHANGED <<mounted, messages, isLoading, currentResponse, displayedResponse,
                   typewriterTimeoutRef, fullResponse, newMessages, completions,
                   turn>>

\* The callback of setTimeout(..., 100) runs, with the fullResponse of the
\* handleSend call that scheduled it.
CompletionFires ==
    /\ completions # <<>>
    /\ LET c == Head(completions)
       IN  /\ queued' = IF mounted
                        THEN [queued EXCEPT
                                 !.messages = Append(@, [role |-> "assistant",
                                                         content |-> c.fullResponse]),
                                 !.currentResponse = <<>>,
                                 !.displayedResponse = <<>>]
                        ELSE queued
           /\ appends' = IF mounted
                         THEN Append(appends, [turn |-> c.turn, kind |-> "reply"])
                         ELSE appends
    /\ isStreamingRef' = FALSE
    /\ completions' = Tail(completions)
    /\ UNCHANGED <<mounted, messages, isLoading, currentResponse, displayedResponse,
                   typewriterTimeoutRef, fullResponse, newMessages, turn, outcome>>
    /\ UNCHANGED netVars

\* React renders the state updates made outside an event handler.
Render(random) ==
    /\ mounted
    /\ queued # Rendered
    /\ Commit(queued, isStreamingRef, random, turn)
    /\ UNCHANGED <<mounted, isStreamingRef, fullResponse, newMessages, completions,
                   turn, outcome, appends>>
    /\ UNCHANGED netVars

\* The typewriter timer fires: setDisplayedResponse(prev => prev + chunk).
TypewriterFires ==
    /\ typewriterTimeoutRef.pending
    /\ queued' = [queued EXCEPT !.displayedResponse = @ \o typewriterTimeoutRef.chunk]
    /\ typewriterTimeoutRef' = NoTimer
    /\ UNCHANGED <<mounted, messages, isLoading, currentResponse, displayedResponse,
                   isStreamingRef, fullResponse, newMessages, completions, turn,
                   outcome, appends>>
    /\ UNCHANGED netVars

\* The component is unmounted: the clean-ups of both effects run.
Unmount ==
    /\ mounted
    /\ mounted' = FALSE
    /\ isStreamingRef' = FALSE
    /\ typewriterTimeoutRef' = NoTimer
    /\ outcome' = IF turn > 0 /\ outcome[turn] = "running"
                  THEN [outcome EXCEPT ![turn] = "unmounted"]
                  ELSE outcome
    /\ UNCHANGED <<messages, isLoading, currentResponse, displayedResponse, queued,
                   fullResponse, newMessages, completions, turn, appends>>
    /\ UNCHANGED netVars

-----------------------------------------------------------------------------
(* Specifications *)

\* Every step of sendMessage, with every credential, status and error body; the
\* body arrives in chunks of NetChunk bytes.
Next ==
    \/ \E key \in ApiKeys, body \in RetryBodies :
           sendMessage(key, body) /\ UNCHANGED chatVars
    \/ Tick /\ UNCHANGED chatVars
    \/ TimerFires /\ UNCHANGED chatVars
    \/ \E status \in OkStatuses \cup ErrorStatuses :
           FetchResolves(status) /\ UNCHANGED chatVars
    \/ FetchRejects /\ UNCHANGED chatVars
    \/ \E errorText \in ErrorTexts : ErrorBodyArrives(errorText) /\ UNCHANGED chatVars
    \/ ErrorBodyFails /\ UNCHANGED chatVars
    \/ \E n \in {Min(NetChunk, Len(serverBody) - readPos)} :
           ReadChunk(n) /\ UNCHANGED chatVars
    \/ ReadDone /\ UNCHANGED chatVars
    \/ ReadFails /\ UNCHANGED chatVars
    \/ \E rejected \in BOOLEAN : CancelSettles(rejected) /\ UNCHANGED chatVars
    \/ BackoffElapses /\ UNCHANGED chatVars

Spec == Init /\ [][Next]_vars

\* sendMessage when every operation it awaits settles: the fetch resolves,
\* rejects or is aborted by its timer, a body read and reader.cancel() return,
\* and the backoff timer fires.
Settles ==
    \/ Tick
    \/ TimerFires
    \/ \E status \in OkStatuses \cup ErrorStatuses : FetchResolves(status)
    \/ FetchRejects
    \/ \E errorText \in ErrorTexts : ErrorBodyArrives(errorText)
    \/ ErrorBodyFails
    \/ \E n \in {Min(NetChunk, Len(serverBody) - readPos)} : ReadChunk(n)
    \/ ReadDone
    \/ ReadFails
    \/ \E rejected \in BOOLEAN : CancelSettles(rejected)
    \/ BackoffElapses

SpecSettles == Spec /\ WF_vars(Settles /\ UNCHANGED chatVars)

\* The decoding of one streamed response: every body of Bodies, cut into chunks
\* at every possible place, on an attempt whose request succeeds.
NextStream ==
    \/ \E body \in Bodies : sendMessage(<<"s", "k">>, body) /\ UNCHANGED chatVars
    \/ FetchResolves(200) /\ UNCHANGED chatVars
    \/ \E n \in 1..Len(serverBody) : ReadChunk(n) /\ UNCHANGED chatVars
    \/ ReadDone /\ UNCHANGED chatVars
    \/ \E rejected \in BOOLEAN : CancelSettles(rejected) /\ UNCHANGED chatVars

SpecStream == Init /\ [][NextStream]_vars

\* A conversation in ChatInterface: turns against an endpoint whose requests may
\* fail and whose reads may fail on the last attempt, the body arriving in
\* chunks of NetChunk bytes, with every order of network steps, renders, timers,
\* sends and the unmount.
NextChat ==
    \/ \E key \in ChatKeys, input \in Inputs, body \in RetryBodies :
           handleSend(key, input, body)
    \/ FetchResolves(200) /\ UNCHANGED chatVars
    \/ FetchRejects /\ UNCHANGED chatVars
    \/ \E n \in {Min(NetChunk, Len(serverBody) - readPos)} : handleProgress(n)
    \/ ReadDone /\ UNCHANGED chatVars
    \/ ReadFails /\ retryCount = maxRetries - 1 /\ UNCHANGED chatVars
    \/ \E rejected \in BOOLEAN : CancelSettles(rejected) /\ UNCHANGED chatVars
    \/ BackoffElapses /\ UNCHANGED chatVars
    \/ SendReturns
    \/ SendThrows
    \/ CompletionFires
    \/ \E random \in RandomPercents : Render(random)
    \/ TypewriterFires
    \/ Unmount

SpecChat == Init /\ [][NextChat]_vars

\* The typewriter at work on one reply: the records arrive whole, the request
\* and the reads succeed.
NextReveal ==
    \/ \E body \in RevealBodies : handleSend(<<"s", "k">>, <<"q">>, body)
    \/ FetchResolves(200) /\ UNCHANGED chatVars
    \/ \E n \in {i \in 1..(Len(serverBody) - readPos) : serverBody[readPos + i] = "\n"} :
           handleProgress(n)
    \/ \E random \in RandomPercents : Render(random)
    \/ TypewriterFires

SpecReveal == Init /\ [][NextReveal]_vars

-----------------------------------------------------------------------------
(* What the claims speak about *)

IsBlank(s) == \A i \in 1..Len(s) : s[i] \in Whitespace

\* The complete lines among the bytes received so far by the current attempt.
ReceivedLines == PopLines(split(Utf8Decode(SubSeq(serverBody, 1, readPos)).out))

NewlinesReceived == Cardinality({i \in 1..readPos : serverBody[i] = "\n"})

\* The onProgress calls of the current attempt.
AttemptDeltas == SubSeq(deltas, attemptBase + 1, Len(deltas))

\* line is `data: ` followed by JSON of the shape {choices: [{delta: {content:
\* <string>}}]}.
HasTextContent(line) ==
    /\ Len(line) > Len(PrefixData)
    /\ SubSeq(line, 1, Len(PrefixData)) = PrefixData
    /\ LET p == SubSeq(line, Len(PrefixData) + 1, Len(line))
       IN  /\ p \in DOMAIN JSONTable
           /\ JSONTable[p].t = "object"
           /\ "choices" \in DOMAIN JSONTable[p].f
           /\ JSONTable[p].f.choices.t = "array"
           /\ Len(JSONTable[p].f.choices.e) > 0
           /\ JSONTable[p].f.choices.e[1].t = "object"
           /\ "delta" \in DOMAIN JSONTable[p].f.choices.e[1].f
           /\ JSONTable[p].f.choices.e[1].f.delta.t = "object"
           /\ "content" \in DOMAIN JSONTable[p].f.choices.e[1].f.delta.f
           /\ JSONTable[p].f.choices.e[1].f.delta.f.content.t = "string"

TextContent(line) ==
    JSONTable[SubSeq(line, Len(PrefixData) + 1, Len(line))].f.choices.e[1].f.delta.f.content.v

\* The non-empty content fields of the well-formed records among lines, in order.
NonEmptyContents(lines) ==
    LET good == SelectSeq(lines, LAMBDA l : HasTextContent(l) /\ TextContent(l) # "")
    IN  [i \in 1..Len(good) |-> TextContent(good[i])]

NonEmpty(texts) == SelectSeq(texts, LAMBDA x : x # "")

-----------------------------------------------------------------------------
(* C1 *)

\* C1: whenever sendMessage was called with a credential that is empty after
\* trimming whitespace, it has failed with the invalid-credential error without
\* entering the retry loop (no retry state was touched, no wait was made) and it
\* issued no network call.
C1_BlankKeyFailsBeforeNetwork ==
    (pc # "idle" /\ IsBlank(apiKey)) =>
        /\ pc = "failed"
        /\ thrown = Error("Error", MsgInvalidKey)
        /\ netCalls = 0
        /\ waits = <<>>
        /\ lastError = NoError

C1_Witness ==
    /\ pc = "failed"
    /\ apiKey = <<" ", "\t">>
    /\ thrown.message = MsgInvalidKey
    /\ netCalls = 0

-----------------------------------------------------------------------------
(* C2 *)

\* C2: the waits made are always the first ones of 1000 ms, 2000 ms, and when the
\* call has failed after attempts that all failed with an error other than a
\* timeout, exactly 3 network calls were made, exactly the two waits 1000 ms and
\* 2000 ms occurred (none after the third failure), and the error thrown is the
\* exhausted-retries error with the message of the last underlying error.
C2_ThreeAttemptsTwoWaits ==
    /\ waits \in {<<>>, <<1000>>, <<1000, 2000>>}
    /\ (pc = "failed" /\ netCalls > 0 /\ lastError.name # "AbortError") =>
           /\ netCalls = 3
           /\ waits = <<1000, 2000>>
           /\ thrown = Error("Error", MsgExhausted \o lastError.message)

C2_Witness ==
    /\ pc = "failed"
    /\ netCalls = 3
    /\ waits = <<1000, 2000>>
    /\ lastError.message = Msg503
    /\ thrown.message = MsgExhausted \o Msg503

-----------------------------------------------------------------------------
(* C3 *)

\* C3: once an attempt has failed with an AbortError, the call has failed with
\* the timeout error, and neither a wait nor a further attempt followed: the
\* waits made are those of the earlier failures (one per retry so far) and the
\* network calls are those up to this attempt, whatever the retry count.
C3_TimeoutSurfacedAtOnce ==
    lastError.name = "AbortError" =>
        /\ pc = "failed"
        /\ thrown = Error("Error", MsgTimeout)
        /\ Len(waits) = retryCount
        /\ netCalls = retryCount + 1

C3_Witness ==
    /\ lastError.name = "AbortError"
    /\ retryCount = 2
    /\ pc = "failed"
    /\ thrown.message = MsgTimeout

-----------------------------------------------------------------------------
(* C4 *)

\* C4: an attempt never outlives its 30 s timeout: whenever more than the
\* timeout has passed since the attempt's request was issued, in whatever phase
\* (also while the body is read), the attempt was cancelled and the call failed
\* with the timeout error.
C4_AttemptBoundedByTimeout ==
    clockMs > timeout => (pc = "failed" /\ thrown.message = MsgTimeout)

-----------------------------------------------------------------------------
(* C5 *)

\* C5: however the body is cut into chunks, the onProgress calls made so far are
\* those that processing the received bytes in one piece makes (same texts, same
\* order), and no more lines were processed than newlines were received; so a
\* record cut by chunk boundaries yields one call with its full content.
C5_ChunkingIndependent ==
    pc \in {"read", "cancel", "done"} =>
        /\ AttemptDeltas = ProcessLines(ReceivedLines).calls
        /\ linesSeen <= NewlinesReceived

\* A chunk ended inside the three-byte character of the second record, after the
\* first record was delivered.
C5_Witness ==
    /\ pc = "read"
    /\ decoderPending # <<>>
    /\ Len(buffer) > Len(PrefixData)
    /\ deltas = <<"Hi">>

-----------------------------------------------------------------------------
(* C6 *)

\* C6: onProgress is never called with the empty text, and the calls made are
\* exactly the non-empty content fields of the records received, one call each.
C6_NoEmptyDelta ==
    /\ \A i \in 1..Len(deltas) : deltas[i] # ""
    /\ pc \in {"read", "cancel", "done"} =>
           AttemptDeltas = NonEmptyContents(ReceivedLines)

-----------------------------------------------------------------------------
(* C7 *)

\* C7: when an attempt failed on a non-success status whose body holds a provider
\* message (nested raw metadata first, else top level), the attempt's error
\* carries that message (as the provider error, the OpenRouter error, or at least
\* inside the body quoted by the generic request-failed error).
C7_ProviderMessageCarried ==
    /\ (pc \in {"backoff", "failed"} /\ response.text = ErrTextProvider) =>
           lastError.message \in
               {MsgProvider \o "Rate limit reached",
                StatusError(500, response.text).message}
    /\ (pc \in {"backoff", "failed"} /\ response.text = ErrTextTop) =>
           lastError.message \in
               {MsgOpenRouter \o "No auth credentials found",
                StatusError(500, response.text).message}

-----------------------------------------------------------------------------
(* C8 *)

\* C8: when an attempt failed after the body of a non-success status arrived, its
\* error is decided by the status alone, whether or not the body is JSON: the
\* status-specific error for 429, 401, 403 and 503, the generic request-failed
\* error (status, status text, body) for any other status.
C8_StatusDecidesErrorKind ==
    (pc \in {"backoff", "failed"} /\ response.text # "") =>
        /\ lastError.name = "Error"
        /\ response.status = 429 => lastError.message = Msg429
        /\ response.status = 401 => lastError.message = Msg401
        /\ response.status = 403 => lastError.message = Msg403
        /\ response.status = 503 => lastError.message = Msg503
        /\ response.status \notin {429, 401, 403, 503} =>
               lastError.message =
                   MsgRequestFailed \o ToString(response.status) \o " "
                       \o StatusText(response.status) \o "\n" \o response.text

\* A 429 whose body is not JSON failed with the rate-limit error.
C8_Witness ==
    /\ pc = "backoff"
    /\ response.status = 429
    /\ response.text = ErrTextHtml
    /\ lastError.message = Msg429

-----------------------------------------------------------------------------
(* C9 *)

\* C9: a record that is not JSON or lacks choices/delta never fails the attempt
\* (no error is recorded, nothing is retried), and the non-empty contents of all
\* well-formed records received so far, those after it included, were delivered
\* in order.
C9_MalformedRecordSkipped ==
    /\ readError = NoError
    /\ lastError = NoError
    /\ pc \notin {"backoff", "failed"}
    /\ pc \in {"read", "cancel", "done"} =>
           NonEmpty(AttemptDeltas) = NonEmptyContents(ReceivedLines)

\* The record after three undecodable ones was delivered and the call returned.
C9_Witness ==
    /\ serverBody = BodyMalformed
    /\ pc = "done"
    /\ linesSeen = 4
    /\ deltas = <<"Hi">>

-----------------------------------------------------------------------------
(* C10 *)

\* C10: every onProgress call was caused by a line that begins with `data: `.
C10_OnlyDataLinesDeliver ==
    \A i \in 1..Len(deltaLines) :
        /\ Len(deltaLines[i]) >= 6
        /\ SubSeq(deltaLines[i], 1, 6) = <<"d", "a", "t", "a", ":", " ">>

\* Two lines holding a well-formed payload behind `Data: ` and `data:` were
\* taken and caused no call; the `data: ` line after them did.
C10_Witness ==
    /\ serverBody = BodyNotData
    /\ pc = "done"
    /\ linesSeen = 3
    /\ deltas = <<"U+4F60">>

-----------------------------------------------------------------------------
\* C11: a `data: [DONE]` line causes no onProgress call and does not end the
\* reading: every well-formed record received so far, the ones after the marker
\* included, has been delivered, and the reader is done only once the stream
\* has handed out its last byte.
C11_DoneMarkerDoesNotEndReading ==
    /\ \A i \in 1..Len(deltaLines) : deltaLines[i] # PrefixData \o PayloadDone
    /\ pc \in {"read", "cancel", "done"} =>
           NonEmpty(AttemptDeltas) = NonEmptyContents(ReceivedLines)
    /\ pc \in {"cancel", "done"} => readPos = Len(serverBody)

\* The record after the marker has been delivered and the stream read to its end.
C11_Witness ==
    /\ serverBody = BodyDoneMidway
    /\ pc = "done"
    /\ deltas = <<"Hi">>
    /\ deltaLines = <<PrefixData \o PayloadHi>>
    /\ readPos = Len(BodyDoneMidway)

-----------------------------------------------------------------------------
(* What the claims about ChatInterface speak about *)

IsPrefix(s, t) == Len(s) <= Len(t) /\ SubSeq(t, 1, Len(s)) = s

\* The step is the typewriter timer's callback.
IsReveal ==
    /\ typewriterTimeoutRef.pending
    /\ queued'.displayedResponse = queued.displayedResponse \o typewriterTimeoutRef.chunk

\* The step is the completion callback of handleSend.
IsCompletion == completions # <<>> /\ completions' = Tail(completions)

Running == turn > 0 /\ outcome[turn] = "running"

-----------------------------------------------------------------------------
\* C12: in every state the revealed text is at most as long as the accumulated
\* text: length(displayedResponse) <= length(currentResponse).
C12_NoOverReveal == Len(displayedResponse) <= Len(currentResponse)

-----------------------------------------------------------------------------
\* C13: while the streaming flag is set the revealed text is a prefix of the
\* accumulated text, in the rendered state and in the state the pending updates
\* lead to, and the chunk a pending timer will append is exactly the next
\* unrevealed characters, whatever deltas arrived since it was scheduled.
C13_RevealedIsPrefix ==
    isStreamingRef =>
        /\ IsPrefix(displayedResponse, currentResponse)
        /\ IsPrefix(queued.displayedResponse, queued.currentResponse)
        /\ IsPrefix(queued.displayedResponse, fullResponse)
        /\ typewriterTimeoutRef.pending =>
               IsPrefix(queued.displayedResponse \o typewriterTimeoutRef.chunk,
                        fullResponse)

\* The timer was scheduled for "Hi", the next delta arrived before it fired, and
\* it has fired; neither is rendered yet.
C13_Witness ==
    /\ isStreamingRef
    /\ currentResponse = <<"H", "i">>
    /\ queued.currentResponse = <<"H", "i", "U+4F60">>
    /\ displayedResponse = <<>>
    /\ queued.displayedResponse = <<"H", "i">>
    /\ ~typewriterTimeoutRef.pending

-----------------------------------------------------------------------------
\* C14: when the completion callback of a successfully ended turn discards the
\* reveal state, the text revealed so far (the concatenation of the turn's
\* reveal chunks) is the turn's full accumulated text.
C14_BacklogDrainedBeforeDiscard ==
    [][IsCompletion => queued.displayedResponse = Head(completions).fullResponse]_vars

-----------------------------------------------------------------------------
TextGreeting == TextGreetingHead \o TextGreetingTail

\* The typewriter is at work on "Hi! How are you?": the flag is set, the text is
\* rendered and a timer is pending.
TypingGreeting ==
    /\ isStreamingRef
    /\ currentResponse = TextGreeting
    /\ typewriterTimeoutRef.pending

\* C15 as stated: with "Hi! How are you?" accumulated, the first three chunks are
\* "H", "i" and "!", and the reveal event after "!" waits the 250 ms pause.
C15_LettersOneByOne ==
    TypingGreeting =>
        /\ displayedResponse = <<>> => typewriterTimeoutRef.chunk = <<"H">>
        /\ displayedResponse = <<"H">> => typewriterTimeoutRef.chunk = <<"i">>
        /\ displayedResponse = <<"H", "i">> => typewriterTimeoutRef.chunk = <<"!">>
        /\ displayedResponse = <<"H", "i", "!">> =>
               typewriterTimeoutRef.pause = SentencePauseMs

\* C15, amended: with "Hi! How are you?" accumulated, the first chunks are "Hi"
\* (a word of at most four letters is revealed whole), then "!" alone, and the
\* reveal event after "!" waits the 250 ms sentence pause on top of its typing
\* delay; the events before it wait no pause.
C15_WordThenPunctuation ==
    TypingGreeting =>
        /\ displayedResponse = <<>> =>
               /\ typewriterTimeoutRef.chunk = <<"H", "i">>
               /\ typewriterTimeoutRef.pause = 0
        /\ displayedResponse = <<"H", "i">> =>
               /\ typewriterTimeoutRef.chunk = <<"!">>
               /\ typewriterTimeoutRef.pause = 0
        /\ displayedResponse = <<"H", "i", "!">> =>
               /\ typewriterTimeoutRef.chunk = <<" ">>
               /\ typewriterTimeoutRef.pause = SentencePauseMs
               /\ typewriterTimeoutRef.delay > 0
        /\ displayedResponse # <<>> => displayedResponse[1] = "H"
        /\ Len(displayedResponse) # 1

\* "Hi" and "!" are revealed and the next reveal event is scheduled.
C15_Witness ==
    /\ TypingGreeting
    /\ displayedResponse = <<"H", "i", "!">>
    /\ typewriterTimeoutRef.chunk = <<" ">>
    /\ typewriterTimeoutRef.pause = SentencePauseMs

-----------------------------------------------------------------------------
\* The messages of the given kind appended for turn t.
Appended(t, kind) ==
    Cardinality({i \in 1..Len(appends) : appends[i] = [turn |-> t, kind |-> kind]})

\* The step is the catch block of handleSend in a mounted component.
IsCatch == pc = "failed" /\ pc' = "idle" /\ mounted

\* C16: a turn ends with at most one assistant message; a failed send appends
\* exactly one, whose content is the message of the error sendMessage threw, and
\* no reply; a reply is appended only for a turn whose send succeeded.
C16_OneTerminalOutcome ==
    /\ [](\A t \in 1..turn :
             /\ Appended(t, "error") + Appended(t, "reply") <= 1
             /\ outcome[t] = "failed" =>
                    Appended(t, "error") = 1 /\ Appended(t, "reply") = 0
             /\ Appended(t, "error") = 1 => outcome[t] = "failed"
             /\ Appended(t, "reply") = 1 => outcome[t] = "completed")
    /\ [][IsCatch =>
            /\ queued'.messages =
                   Append(queued.messages,
                          [role |-> "assistant", content |-> <<thrown.message>>])
            /\ <<thrown.message>> # fullResponse]_vars

\* The send of turn 1 failed after part of the response had been received; the
\* only assistant message is the error's.
C16_Witness ==
    /\ turn = 1
    /\ outcome = <<"failed">>
    /\ fullResponse = <<"H", "i">>
    /\ appends = <<[turn |-> 1, kind |-> "user"], [turn |-> 1, kind |-> "error"]>>
    /\ Len(queued.messages) = 2
    /\ queued.messages[2] =
           [role |-> "assistant",
            content |-> <<MsgExhausted \o NetworkError.message>>]

-----------------------------------------------------------------------------
Aborted == {"failed", "unmounted"}

\* C17: once a turn is aborted (its send failed, or the component was unmounted
\* during it) the typewriter timer scheduled for it never fires.
C17_NoRevealAfterAbort ==
    [][IsReveal => outcome[typewriterTimeoutRef.turn] \notin Aborted]_vars

-----------------------------------------------------------------------------
\* C18: after the component is unmounted sendMessage reads no further chunk and
\* makes no further onProgress call.
C18_UnmountStopsReading ==
    [][~mounted => ~(readPos' > readPos) /\ ~(Len(deltas') > Len(deltas))]_vars

-----------------------------------------------------------------------------
\* C19: an assistant reply is appended, or scheduled to be appended, only for a
\* turn whose send resolved while the streaming flag was set; a turn whose send
\* failed or whose component was unmounted during the send gets none, so its
\* partial or full response text never enters the history.
C19_NoReplyForAbortedTurn ==
    /\ \A t \in 1..turn :
           /\ Appended(t, "reply") > 0 => outcome[t] = "completed"
           /\ outcome[t] \in Aborted => Appended(t, "reply") = 0
    /\ \A i \in 1..Len(completions) : outcome[completions[i].turn] = "completed"
    /\ \A i \in 1..Len(queued.messages) :
           /\ appends[i].kind = "user" <=> queued.messages[i].role = "user"
           /\ outcome[appends[i].turn] \in Aborted =>
                  \/ appends[i].kind = "user"
                  \/ /\ appends[i].kind = "error"
                     /\ Len(queued.messages[i].content) = 1
                     /\ queued.messages[i].content # fullResponse

\* The component was unmounted while the reply was streaming; the send has since
\* resolved with the whole response and nothing was appended or scheduled.
C19_Witness ==
    /\ ~mounted
    /\ outcome = <<"unmounted">>
    /\ pc = "idle"
    /\ fullResponse = <<"H", "i", "U+4F60">>
    /\ completions = <<>>
    /\ appends = <<[turn |-> 1, kind |-> "user"]>>

-----------------------------------------------------------------------------
\* The text not revealed yet, as rendered.
Backlog == SubSeq(currentResponse, Len(displayedResponse) + 1, Len(currentResponse))

\* The number of Latin letters the text starts with.
LeadingLetters(text) ==
    Cardinality({n \in 1..Len(text) : \A i \in 1..n : text[i] \in Letters})

TextWords == TextWordsHead \o TextWordsTail

\* C20: when the backlog starts with a run of n Latin letters, the scheduled
\* chunk is the whole run if n <= 4 and its first 3 letters if n > 4; the
\* five-letter word of "Code types" is revealed as "typ" and then "es".
C20_LatinRunChunks ==
    (isStreamingRef /\ typewriterTimeoutRef.pending) =>
        LET n == LeadingLetters(Backlog)
        IN  /\ (1 <= n /\ n <= 4) => typewriterTimeoutRef.chunk = SubSeq(Backlog, 1, n)
            /\ n > 4 => typewriterTimeoutRef.chunk = SubSeq(Backlog, 1, 3)
            /\ (currentResponse = TextWords
                    /\ displayedResponse = <<"C", "o", "d", "e", " ">>) =>
                   typewriterTimeoutRef.chunk = <<"t", "y", "p">>
            /\ (currentResponse = TextWords
                    /\ displayedResponse = <<"C", "o", "d", "e", " ", "t", "y", "p">>) =>
                   typewriterTimeoutRef.chunk = <<"e", "s">>

\* Of the five letters of "types" the first three are revealed and the last two
\* are scheduled.
C20_Witness ==
    /\ isStreamingRef
    /\ currentResponse = TextWords
    /\ displayedResponse = <<"C", "o", "d", "e", " ", "t", "y", "p">>
    /\ typewriterTimeoutRef.pending
    /\ typewriterTimeoutRef.chunk = <<"e", "s">>

-----------------------------------------------------------------------------
\* C21: a punctuation character of the fixed set is always revealed alone: a
\* scheduled chunk that contains one has length exactly 1, so no chunk of
\* several characters contains one.
C21_PunctuationAlone ==
    typewriterTimeoutRef.pending =>
        \A i \in 1..Len(typewriterTimeoutRef.chunk) :
            typewriterTimeoutRef.chunk[i] \in Punctuation =>
                Len(typewriterTimeoutRef.chunk) = 1

\* The two Chinese characters are revealed as one chunk and the fullwidth
\* comma after them is scheduled alone.
C21_Witness ==
    /\ isStreamingRef
    /\ currentResponse = TextChinese
    /\ displayedResponse = <<"U+4F60", "U+597D">>
    /\ typewriterTimeoutRef.pending
    /\ typewriterTimeoutRef.chunk = <<"U+FF0C">>

-----------------------------------------------------------------------------
\* The last character revealed, as rendered; "" when nothing is revealed.
LastRevealed ==
    IF displayedResponse = <<>> THEN "" ELSE displayedResponse[Len(displayedResponse)]

\* C22: the punctuation pause of a scheduled reveal event depends only on the
\* last character already revealed: 250 ms after a sentence-final mark, 120 ms
\* after a comma-class mark, 180 ms after a colon-class mark, 80 ms after a
\* quotation mark and 0 otherwise, nothing revealed included; the character
\* about to be revealed has no part in it.
C22_PauseFromLastRevealed ==
    (isStreamingRef /\ typewriterTimeoutRef.pending) =>
        typewriterTimeoutRef.pause - paragraphDelay(displayedResponse) =
            IF LastRevealed \in {".", "U+3002", "!", "U+FF01", "?", "U+FF1F"} THEN 250
            ELSE IF LastRevealed \in {",", "U+FF0C", "U+3001"} THEN 120
            ELSE IF LastRevealed \in {":", "U+FF1A"} THEN 180
            ELSE IF LastRevealed \in {"\"", "'"} THEN 80
            ELSE 0

\* The closing quotation mark of "Hi," is about to be revealed after the comma:
\* the event waits the comma's pause, not the quotation mark's.
C22_Witness ==
    /\ isStreamingRef
    /\ currentResponse = TextQuoted
    /\ displayedResponse = <<"\"", "H", "i", ",">>
    /\ typewriterTimeoutRef.pending
    /\ typewriterTimeoutRef.chunk = <<"\"">>
    /\ typewriterTimeoutRef.pause = CommaPauseMs

-----------------------------------------------------------------------------
\* Math.round(baseDelay * factor * progressFactor * randomFactor) for the
\* rendered lengths, over the values of randomFactor; factor in percent.
DelaysWithLengthFactor(factor) ==
    {(baseDelay * factor
          * progressFactor(Len(currentResponse), Len(displayedResponse))
          * random + 500000) \div 1000000 : random \in RandomPercents}

\* C23: the length factor of calculateTypingDelay is 1.0 for a total length
\* under 100, 0.95 from 100 to 500, 0.9 above 500 up to 1000 and 0.85 above
\* 1000; at a total length of exactly 100 the delay of a scheduled reveal event
\* is computed with 0.95.
C23_LengthFactorBands ==
    (isStreamingRef /\ typewriterTimeoutRef.pending) =>
        typewriterTimeoutRef.delay \in
            DelaysWithLengthFactor(
                IF Len(currentResponse) < 100 THEN 100
                ELSE IF Len(currentResponse) <= 500 THEN 95
                ELSE IF Len(currentResponse) <= 1000 THEN 90
                ELSE 85)

-----------------------------------------------------------------------------
\* The current attempt obtained a reader and has left the finally block.
ReadingConcluded ==
    /\ response.status \in OkStatuses \ NullBodyStatuses
    /\ pc \in {"done", "backoff", "failed"}

\* C24: an attempt that obtained a reader cancels it exactly once before it
\* concludes, after a normal end of the stream and after a read error alike,
\* and not before the reading is over; whether the cancel itself succeeds has
\* no part in the outcome: a stream read to its end without error makes the
\* call succeed, and after a read error it is that error the retry logic sees.
C24_ReaderCancelledOnce ==
    /\ cancelCalls <= 1
    /\ pc \in {"fetch", "errbody", "read", "cancel"} => cancelCalls = 0
    /\ ReadingConcluded =>
           /\ cancelCalls = 1
           /\ readError = NoError => pc = "done"
           /\ readError # NoError =>
                  /\ lastError = readError
                  /\ pc = "failed" => thrown.message = MsgExhausted \o readError.message
    /\ pc = "done" => ReadingConcluded /\ readError = NoError

\* The third attempt lost the connection in mid-stream; the reader was
\* cancelled once and the call failed with the read error's message.
C24_Witness ==
    /\ pc = "failed"
    /\ retryCount = maxRetries - 1
    /\ response.status = 200
    /\ readPos > 0
    /\ readError = NetworkError
    /\ cancelCalls = 1
    /\ thrown.message = MsgExhausted \o NetworkError.message

-----------------------------------------------------------------------------
\* C25: the text the caller accumulates from the onProgress calls of one
\* sendMessage call holds each delta of exactly one attempt's response, once
\* and in order: while an attempt reads, and when the call has succeeded, it is
\* the text of the records that attempt has received, with nothing of a failed
\* earlier attempt before it.
C25_NoRedeliveryAcrossRetries ==
    pc \in {"read", "cancel", "done"} =>
        Concat(deltas) = Concat(NonEmptyContents(ReceivedLines))

-----------------------------------------------------------------------------
\* The assistant messages among msgs.
AssistantMessages(msgs) == SelectSeq(msgs, LAMBDA m : m.role = "assistant")

\* The send of turn t has resolved.
SendSucceeded(t) == outcome[t] \in {"completed", "unanswered"}

\* C26: whatever the interleaving of sends with the completion callback of the
\* previous turn, the history keeps each turn's messages together and in order
\* (no reply is appended after the user message of a later turn), and the
\* message list sent with the latest turn holds an assistant message for every
\* earlier turn whose send succeeded.
C26_HistoryOrder ==
    /\ \A i, j \in 1..Len(appends) : i < j => appends[i].turn <= appends[j].turn
    /\ turn > 0 =>
           Len(AssistantMessages(newMessages)) >=
               Cardinality({t \in 1..(turn - 1) : SendSucceeded(t)})

-----------------------------------------------------------------------------
\* C27: in a component that stays mounted, a turn whose send has resolved has
\* its reply in the history or its completion callback pending, so that the
\* reply is appended when the callback runs; this holds also for a turn sent
\* before the previous turn's callback ran.
C27_ReplyAppendedOrPending ==
    mounted =>
        \A t \in 1..turn :
            SendSucceeded(t) =>
                \/ Appended(t, "reply") = 1
                \/ \E i \in 1..Len(completions) : completions[i].turn = t

-----------------------------------------------------------------------------
\* The records of the whole response body, the last one included whether or
\* not a newline ends it.
AllRecords == split(Utf8Decode(serverBody).out)

\* C28: no content is lost at the end of the stream: when the stream has
\* reported done and the call has succeeded, every well-formed record of the
\* body has been delivered exactly once and in order, a final record that no
\* newline ends included.
C28_FinalRecordDelivered ==
    pc = "done" => NonEmpty(deltas) = NonEmptyContents(AllRecords)

-----------------------------------------------------------------------------
\* C29: while the streaming flag is set and text is waiting to be revealed, a
\* reveal event is scheduled once the pending updates are rendered; its chunk
\* is the next 1 to 4 characters of the backlog, never more than the backlog
\* holds; and every reveal event that runs while the flag is set adds its
\* chunk, at least one character and no more than is accumulated, to the
\* revealed text, so that a backlog of k characters is revealed after at most
\* k events.
C29_ChunkBounded ==
    /\ [](isStreamingRef =>
            /\ (Backlog # <<>> /\ queued = Rendered) => typewriterTimeoutRef.pending
            /\ typewriterTimeoutRef.pending =>
                   /\ Len(typewriterTimeoutRef.chunk) \in 1..4
                   /\ Len(typewriterTimeoutRef.chunk) <= Len(Backlog)
                   /\ typewriterTimeoutRef.chunk =
                          SubSeq(Backlog, 1, Len(typewriterTimeoutRef.chunk)))
    /\ [][(isStreamingRef /\ IsReveal) =>
            /\ Len(queued'.displayedResponse) > Len(queued.displayedResponse)
            /\ Len(queued'.displayedResponse) <= Len(queued.currentResponse)]_vars

\* Of the 100 letters 96 are revealed; the last event is scheduled with the
\* four that are left.
C29_Witness ==
    /\ isStreamingRef
    /\ currentResponse = TextHundred
    /\ Len(displayedResponse) = 96
    /\ typewriterTimeoutRef.pending
    /\ Len(typewriterTimeoutRef.chunk) = 4
    /\ Len(Backlog) = 4

-----------------------------------------------------------------------------
\* C30: when every operation it awaits settles, a sendMessage call ends, after
\* at most 3 network calls, in exactly one of four outcomes that it keeps:
\* success, the invalid-credential error, the timeout error, or the
\* exhausted-retries error wrapping the last failure; the retry loop is never
\* left through its condition (a wait is only made when an attempt is left), so
\* the `throw lastError` after the loop never surfaces an unwrapped error.
C30_TerminatesWithOneOutcome ==
    /\ [](/\ netCalls <= 3
          /\ pc = "backoff" => retryCount + 1 < 3
          /\ pc = "done" => thrown = NoError
          /\ pc = "failed" =>
                 /\ thrown.message \in
                        {MsgInvalidKey, MsgTimeout, MsgExhausted \o lastError.message}
                 /\ thrown # lastError)
    /\ [][(pc = "done" \/ pc = "failed") => (pc' = pc /\ thrown' = thrown)]_vars
    /\ (pc # "idle") ~> (pc \in {"done", "failed"})

\* Two attempts failed and the third network call streamed the response to
\* its end.
C30_Witness ==
    /\ pc = "done"
    /\ netCalls = 3
    /\ retryCount = 2
    /\ waits = <<1000, 2000>>
    /\ deltas # <<>>

====
